---- MODULE Spec2Model ----
(***************************************************************************)
(* A model of the shim bootstrap (pkg/shim/shim.go) and of the socket      *)
(* addressing and dialing code (pkg/shim util_unix.go, stored under        *)
(* src/pkg/sys/socket_unix.go).                                            *)
(*                                                                         *)
(* Strings the code takes apart (addresses, paths) are sequences of        *)
(* tokens: "unix:///p.sock" is <<"unix", "://", "/", "p.sock">>.           *)
(***************************************************************************)
EXTENDS Integers, Sequences, FiniteSets, TLC

\* ------------------------------------------------------------------ bounds
\* Plugins the registry graph may hold.
MaxPlugins == 2
\* Termination signals the environment delivers in one run.
MaxSignals == 1

\* ------------------------------------------------------- strings and paths
UnixPrefix == <<"unix", "://">>

HasPrefix(s, p) == Len(s) >= Len(p) /\ SubSeq(s, 1, Len(p)) = p

TrimPrefix(s, p) == IF HasPrefix(s, p) THEN SubSeq(s, Len(p) + 1, Len(s)) ELSE s

abstractSocketPrefix == <<"\\x00">>

\* socket.isAbstract
isAbstract(s) == ~HasPrefix(s, UnixPrefix)

\* socket.path
path(s) ==
    LET p == TrimPrefix(s, UnixPrefix)
    IN  IF Len(p) = Len(s) THEN abstractSocketPrefix \o p ELSE p

\* filepath.Join of two elements: empty elements are dropped, one separator
\* between the others.
Join(a, b) ==
    IF a = <<>> THEN b
    ELSE IF b = <<>> THEN a
    ELSE IF a[Len(a)] = "/" THEN a \o b
    ELSE a \o <<"/">> \o b

\* The index of the last separator of p, 0 when it has none.
LastSep(p) ==
    LET seps == {i \in 1..Len(p) : p[i] = "/"}
    IN  IF seps = {} THEN 0 ELSE CHOOSE i \in seps : \A j \in seps : j <= i

\* filepath.Dir
Dir(p) ==
    IF LastSep(p) = 0 THEN <<".">>
    ELSE IF LastSep(p) = 1 THEN <<"/">>
    ELSE SubSeq(p, 1, LastSep(p) - 1)

\* sha256.Sum256 printed with %x: an injective image of its input.
Sha256Hex(p) == <<"sha256(">> \o p \o <<")">>

\* The zero value of BootstrapParams.
NoParams == [Version |-> 0, Address |-> <<>>, Protocol |-> ""]

\* ------------------------------------------------------------------ inputs
\* The values the flags and the environment may take.
NamespaceValues == {<<>>, <<"ns1">>}
ActionValues    == {<<>>, <<"start">>, <<"delete">>, <<"bogus">>}
SocketValues    == {<<>>, <<"/", "p.sock">>}
DebugSocketValues == {<<>>, <<"/", "d.sock">>}
\* --address and --id are fixed: only SocketAddress reads them.
AddressFlagValue == <<"/", "run", "/", "c.sock">>
IdValue == <<"id1">>

VARIABLES
    \* parsed flags (package-level variables of shim.go)
    versionFlag, infoFlag, debugFlag, namespaceFlag, action,
    socketFlag, debugSocketFlag, addressFlag, id,
    \* the main activity
    pc,            \* where Run/run/serve stands
    runErr,        \* what run returned: "none" until it returns
    serveErr,      \* what serve returned: "none" until it returns
    tuned, signalsSet, subreaperSet,
    \* the shutdown context
    sdCreated, sdCanceled, sdDone, pluginShutdown,
    \* the manager and the streams
    mgrCalls, mgrStart, stdout, stderrExit1, exitCalls,
    \* plugin loading
    plIdx, ttrpcServices, ttrpcUnaryInterceptors, pprofHandler, serverBuilt,
    initErr,       \* the error of the plugin loop's last iteration, "none" outside the loop
    \* listeners and the concurrent activities
    lPrimary, lDebug, gPrimary, gDebug, gExit, gReap, termSig,
    \* socket cleanup
    cleanups, removes,
    \* the process
    proc, exitCode,
    \* the stack-dump loop: signals waiting in its channel, dumps logged
    dumpSig, dumps,
    \* hybridVsockDialer: its arguments, the server it talks to, the clock
    dTimeout, dN, srvEOFs, srvFinal, dNow,
    \* hybridVsockDialer: the loop, the connection, the reader, the channels
    dPc, dConn, dReader, dRead, errChan, timeoutCh, dRecv, dAttempts, dOpen, dResult,
    \* the socket functions of socket_unix.go: the last call and what it
    \* returned, the system calls made so far, the files that exist, the
    \* calls that have returned
    call, ret, ops, files, nCalls

flagVars == <<versionFlag, infoFlag, debugFlag, namespaceFlag, action,
              socketFlag, debugSocketFlag, addressFlag, id>>
setupVars == <<tuned, signalsSet, subreaperSet>>
sdVars == <<sdCreated, sdCanceled, sdDone, pluginShutdown>>
ioVars == <<mgrCalls, mgrStart, stdout, stderrExit1, exitCalls>>
pluginVars == <<plIdx, ttrpcServices, ttrpcUnaryInterceptors, pprofHandler, serverBuilt,
                initErr>>
actVars == <<lPrimary, lDebug, gPrimary, gDebug, gExit, gReap, termSig>>
cleanVars == <<cleanups, removes>>
procVars == <<proc, exitCode>>

bootVars == <<flagVars, pc, runErr, serveErr, setupVars, sdVars, ioVars, pluginVars,
              actVars, cleanVars, procVars>>
dialVars == <<dTimeout, dN, srvEOFs, srvFinal, dNow, dPc, dConn, dReader, dRead, errChan,
              timeoutCh, dRecv, dAttempts, dOpen, dResult>>

diagVars == <<dumpSig, dumps>>
sockVars == <<call, ret, ops, files, nCalls>>

\* What the bootstrap's steps, and the dialer's, leave alone.
offBoot == <<dialVars, diagVars, sockVars>>
offDial == <<bootVars, diagVars, sockVars>>
offDiag == <<bootVars, dialVars, sockVars>>

vars == <<bootVars, dialVars, diagVars, sockVars>>

\* No socket function has been called.
SockIdle ==
    /\ call = [fn |-> "none", args |-> <<>>]
    /\ ret = [err |-> "nil", val |-> <<>>]
    /\ ops = <<>>
    /\ files = {}
    /\ nCalls = 0

\* No stack-dump signal has arrived.
DiagIdle == dumpSig = 0 /\ dumps = 0

\* No dial is in progress.
DialIdle ==
    /\ dTimeout = 0 /\ dN = 0 /\ srvEOFs = 0 /\ srvFinal = "OK" /\ dNow = 0
    /\ dPc = "idle" /\ dConn = "none" /\ dReader = "none" /\ dRead = "none"
    /\ errChan = "empty" /\ timeoutCh = "unset" /\ dRecv = "none"
    /\ dAttempts = 0 /\ dOpen = 0 /\ dResult = "none"

\* parseFlags, and the state before run's first statement.
Init ==
    /\ versionFlag \in BOOLEAN
    /\ infoFlag \in BOOLEAN
    /\ debugFlag \in BOOLEAN
    /\ namespaceFlag \in NamespaceValues
    /\ action \in ActionValues
    /\ socketFlag \in SocketValues
    /\ debugSocketFlag \in DebugSocketValues
    /\ addressFlag = AddressFlagValue
    /\ id = IdValue
    /\ pc = "run"
    /\ runErr = "none"
    /\ serveErr = "none"
    /\ tuned = FALSE /\ signalsSet = FALSE /\ subreaperSet = FALSE
    /\ sdCreated = FALSE /\ sdCanceled = FALSE /\ sdDone = FALSE
    /\ pluginShutdown = FALSE
    /\ mgrCalls = <<>> /\ mgrStart = [state |-> "none", params |-> NoParams] /\ stdout = <<>>
    /\ stderrExit1 = 0 /\ exitCalls = <<>>
    /\ plIdx = 0 /\ ttrpcServices = 0 /\ ttrpcUnaryInterceptors = 0 /\ initErr = "none"
    /\ pprofHandler = FALSE /\ serverBuilt = FALSE
    /\ lPrimary = "none" /\ lDebug = "none"
    /\ gPrimary = "none" /\ gDebug = "none" /\ gExit = "none" /\ gReap = "none"
    /\ termSig = 0
    /\ cleanups = 0 /\ removes = <<>>
    /\ proc = "running" /\ exitCode = 0
    /\ DialIdle
    /\ DiagIdle
    /\ SockIdle

alive == proc = "running"

\* run returns err: control goes back to Run. A return after the deferred
\* sd.Shutdown() was registered (shim.go:297) runs it first.
Return(err, deferred) ==
    /\ runErr' = err
    /\ pc' = IF deferred THEN "defer" ELSE "ret"


\* ------------------------------------------------------ socket addresses
\* namespaces.NamespaceRequired on run's context, which carries namespaceFlag
\* (shim.go:294): an empty namespace is an error.
NamespaceRequired == [err |-> namespaceFlag = <<>>, ns |-> namespaceFlag]

\* SocketAddress: the digest is of socketPath/ns/id[/debug]; the directory is
\* the one of the package-level addressFlag.
SocketAddress(socketPath, taskId, debug) ==
    LET p0 == Join(Join(socketPath, NamespaceRequired.ns), taskId)
        p  == IF debug THEN Join(p0, <<"debug">>) ELSE p0
        sockroot == Dir(addressFlag)
    IN  IF NamespaceRequired.err
        THEN [err |-> TRUE, addr |-> <<>>]
        ELSE [err |-> FALSE,
              addr |-> UnixPrefix \o Join(sockroot, <<"s">>) \o <<"/">> \o Sha256Hex(p)]

\* RemoveSocket calling os.Remove whatever the address.
RemoveSocket_AnyAddress(address) == <<path(address)>>

\* RemoveSocket: the paths os.Remove is called on (none for an abstract address).
RemoveSocket(address) ==
    IF ~isAbstract(address) THEN <<path(address)>> ELSE <<>>

\* ReadAddress("address"): the content of the address file of the working
\* directory, or an error.
ReadAddressErr == <<"!err">>
AddressFileValues ==
    { ReadAddressErr,
      UnixPrefix \o <<"/", "p.sock">>,
      UnixPrefix \o <<"/", "other.sock">>,
      <<"abstract.sock">>,
      SocketAddress(AddressFlagValue, IdValue, FALSE).addr }

\* cleanupSockets: the paths it calls os.Remove on, in order, when ReadAddress
\* returned af.
cleanupSockets(af) ==
    LET fromFile == IF af # ReadAddressErr THEN RemoveSocket(af) ELSE <<>>
        primary ==
            IF Len(socketFlag) > 0 THEN RemoveSocket(UnixPrefix \o socketFlag)
            ELSE IF ~SocketAddress(addressFlag, id, FALSE).err
                 THEN RemoveSocket(SocketAddress(addressFlag, id, FALSE).addr)
                 ELSE <<>>
        debug ==
            IF Len(debugSocketFlag) > 0 THEN RemoveSocket(UnixPrefix \o debugSocketFlag)
            ELSE IF ~SocketAddress(addressFlag, id, TRUE).err
                 THEN RemoveSocket(SocketAddress(addressFlag, id, TRUE).addr)
                 ELSE <<>>
    IN  fromFile \o primary \o debug

\* ------------------------------------------------------------- run, Run
\* What the manager may return from Start.
ParamVersions == {2, 3}
ParamAddresses == {UnixPrefix \o <<"/", "p.sock">>}
ParamProtocols == {"ttrpc", "grpc"}
BootstrapParams == [Version : ParamVersions, Address : ParamAddresses,
                    Protocol : ParamProtocols]

\* A write that is no JSON object (a serialized protobuf message).
NoJSON == [version |-> 0, address |-> <<>>, protocol |-> ""]

\* One write to config.Stdout: what is written, and for the bootstrap
\* params the JSON object.
StdoutRecord(kind, json) == [kind |-> kind, json |-> json]

\* SelectedAction with the info flag looked at before the version flag.
SelectedAction_InfoFirst ==
    IF infoFlag THEN "info"
    ELSE IF versionFlag THEN "version"
    ELSE IF action = <<"delete">> THEN "delete"
    ELSE IF action = <<"start">> THEN "start"
    ELSE "serve"

\* The action run executes: the version flag is looked at first, then the
\* info flag, then the positional argument (shim.go:262, 271, 300-348).
SelectedAction ==
    IF versionFlag THEN "version"
    ELSE IF infoFlag THEN "info"
    ELSE IF action = <<"delete">> THEN "delete"
    ELSE IF action = <<"start">> THEN "start"
    ELSE "serve"

\* run, version branch (shim.go:262-269).
RunVersion ==
    /\ UNCHANGED offBoot
    /\ alive /\ pc = "run" /\ SelectedAction = "version"
    /\ Return("nil", FALSE)
    /\ UNCHANGED <<flagVars, serveErr, setupVars, sdVars, ioVars, pluginVars,
                   actVars, cleanVars, procVars>>

\* run, info branch: runInfo (shim.go:246-257, 271-273).
RunInfo ==
    /\ UNCHANGED offBoot
    /\ alive /\ pc = "run" /\ SelectedAction = "info"
    /\ mgrCalls' = Append(mgrCalls, "Info")
    /\ \E r \in {"ok", "infoerr", "writeerr"} :
        /\ stdout' = IF r = "infoerr" THEN stdout
                     ELSE Append(stdout, StdoutRecord("info", NoJSON))
        /\ Return(IF r = "ok" THEN "nil" ELSE r, FALSE)
    /\ UNCHANGED <<flagVars, serveErr, setupVars, sdVars, mgrStart, stderrExit1,
                   exitCalls, pluginVars, actVars, cleanVars, procVars>>

\* run, the namespace check (shim.go:275-277).
RunNamespaceEmpty ==
    /\ UNCHANGED offBoot
    /\ alive /\ pc = "run" /\ SelectedAction \notin {"version", "info"}
    /\ namespaceFlag = <<>>
    /\ Return("namespace", FALSE)
    /\ UNCHANGED <<flagVars, serveErr, setupVars, sdVars, ioVars, pluginVars,
                   actVars, cleanVars, procVars>>

\* RunSetRuntime reached without the namespace check.
RunSetRuntime_NoNamespaceCheck ==
    /\ UNCHANGED offBoot
    /\ alive /\ pc = "run" /\ SelectedAction \notin {"version", "info"}
    /\ tuned' = TRUE
    /\ pc' = "signals"
    /\ UNCHANGED <<flagVars, runErr, serveErr, signalsSet, subreaperSet, sdVars,
                   ioVars, pluginVars, actVars, cleanVars, procVars>>

\* setRuntime (shim.go:185-197, 279).
RunSetRuntime ==
    /\ UNCHANGED offBoot
    /\ alive /\ pc = "run" /\ SelectedAction \notin {"version", "info"}
    /\ namespaceFlag # <<>>
    /\ tuned' = TRUE
    /\ pc' = "signals"
    /\ UNCHANGED <<flagVars, runErr, serveErr, signalsSet, subreaperSet, sdVars,
                   ioVars, pluginVars, actVars, cleanVars, procVars>>

\* setupSignals (shim.go:281-284).
RunSetupSignals ==
    /\ UNCHANGED offBoot
    /\ alive /\ pc = "signals"
    /\ \/ /\ signalsSet' = TRUE
          /\ pc' = "subreaper"
          /\ UNCHANGED runErr
       \/ /\ Return("signals", FALSE)
          /\ UNCHANGED signalsSet
    /\ UNCHANGED <<flagVars, serveErr, tuned, subreaperSet, sdVars, ioVars,
                   pluginVars, actVars, cleanVars, procVars>>

\* subreaper unless config.NoSubreaper (shim.go:286-290).
RunSubreaper ==
    /\ UNCHANGED offBoot
    /\ alive /\ pc = "subreaper"
    /\ \E r \in {"NoSubreaper", "ok", "err"} :
        /\ subreaperSet' = (r = "ok")
        /\ IF r = "err" THEN Return("subreaper", FALSE)
           ELSE pc' = "withshutdown" /\ UNCHANGED runErr
    /\ UNCHANGED <<flagVars, serveErr, tuned, signalsSet, sdVars, ioVars,
                   pluginVars, actVars, cleanVars, procVars>>

\* shutdown.WithShutdown and the deferred sd.Shutdown (shim.go:292-297).
RunWithShutdown ==
    /\ UNCHANGED offBoot
    /\ alive /\ pc = "withshutdown"
    /\ sdCreated' = TRUE
    /\ pc' = "dispatch"
    /\ UNCHANGED <<flagVars, runErr, serveErr, setupVars, sdCanceled, sdDone,
                   pluginShutdown, ioVars, pluginVars, actVars, cleanVars, procVars>>

\* The delete action starts the reap loop (shim.go:301-309).
RunDelete ==
    /\ UNCHANGED offBoot
    /\ alive /\ pc = "dispatch" /\ SelectedAction = "delete"
    /\ gReap' = "running"
    /\ pc' = "stop"
    /\ UNCHANGED <<flagVars, runErr, serveErr, setupVars, sdVars, ioVars, pluginVars,
                   lPrimary, lDebug, gPrimary, gDebug, gExit, termSig, cleanVars,
                   procVars>>

\* RunDeleteStop writing a response whatever manager.Stop returned.
RunDeleteStop_AlwaysWrites ==
    /\ UNCHANGED offBoot
    /\ alive /\ pc = "stop"
    /\ mgrCalls' = Append(mgrCalls, "Stop")
    /\ \E r \in {"ok", "stoperr", "marshalerr", "writeerr"} :
        /\ stdout' = Append(stdout, StdoutRecord("delete", NoJSON))
        /\ Return(IF r = "ok" THEN "nil" ELSE r, TRUE)
    /\ UNCHANGED <<flagVars, serveErr, setupVars, sdVars, mgrStart, stderrExit1,
                   exitCalls, pluginVars, actVars, cleanVars, procVars>>

\* manager.Stop and the delete response (shim.go:310-325): Stop may fail,
\* then proto.Marshal, then the write.
RunDeleteStop ==
    /\ UNCHANGED offBoot
    /\ alive /\ pc = "stop"
    /\ mgrCalls' = Append(mgrCalls, "Stop")
    /\ \E r \in {"ok", "stoperr", "marshalerr", "writeerr"} :
        /\ stdout' = IF r \in {"stoperr", "marshalerr"} THEN stdout
                     ELSE Append(stdout, StdoutRecord("delete", NoJSON))
        /\ Return(IF r = "ok" THEN "nil" ELSE r, TRUE)
    /\ UNCHANGED <<flagVars, serveErr, setupVars, sdVars, mgrStart, stderrExit1,
                   exitCalls, pluginVars, actVars, cleanVars, procVars>>

\* MarshalParams with the version field left out of the record.
MarshalParams_VersionOmitted(params) ==
    [version |-> 0, address |-> params.Address, protocol |-> params.Protocol]

\* json.Marshal of a BootstrapParams: the fields under the names of their
\* json tags (shim.go:62-69, 338).
MarshalParams(params) ==
    [version |-> params.Version, address |-> params.Address,
     protocol |-> params.Protocol]

\* The start action (shim.go:326-348): manager.Start, then the params it
\* returned are marshalled and written.
RunStart ==
    /\ UNCHANGED offBoot
    /\ alive /\ pc = "dispatch" /\ SelectedAction = "start"
    /\ mgrCalls' = Append(mgrCalls, "Start")
    /\ \/ /\ mgrStart' = [state |-> "err", params |-> NoParams]
          /\ Return("starting manager", TRUE)
          /\ UNCHANGED stdout
       \/ \E params \in BootstrapParams, w \in {"ok", "writeerr"} :
            /\ mgrStart' = [state |-> "ok", params |-> params]
            /\ stdout' = Append(stdout, StdoutRecord("params", MarshalParams(params)))
            /\ Return(IF w = "ok" THEN "nil" ELSE w, TRUE)
    /\ UNCHANGED <<flagVars, serveErr, setupVars, sdVars, stderrExit1, exitCalls,
                   pluginVars, actVars, cleanVars, procVars>>

\* setLogger unless config.NoSetupLogger, and the registration of the two
\* built-in plugins (shim.go:350-380).
RunSetLogger ==
    /\ UNCHANGED offBoot
    /\ alive /\ pc = "dispatch" /\ SelectedAction = "serve"
    /\ \/ pc' = "plugins" /\ UNCHANGED runErr
       \/ Return("logger", TRUE)
    /\ UNCHANGED <<flagVars, serveErr, setupVars, sdVars, ioVars, pluginVars,
                   actVars, cleanVars, procVars>>

\* What initializing one plugin of the graph may give: an error of
\* initialized.Add, an init error marked skip, another init error, or an
\* instance with some of the three capabilities.
PluginOutcomes == {"adderr", "skip", "initerr", "plain", "service", "interceptor",
                   "pprof"}

\* RunLoadPlugin returning on an error marked skip as on any other.
RunLoadPlugin_SkipAborts ==
    /\ UNCHANGED offBoot
    /\ alive /\ pc = "plugins" /\ plIdx < MaxPlugins
    /\ \E o \in PluginOutcomes :
        /\ plIdx' = plIdx + 1
        /\ IF o = "adderr" THEN Return("plugin set", TRUE)
           ELSE IF o \in {"initerr", "skip"} THEN Return("load plugin", TRUE)
           ELSE UNCHANGED <<pc, runErr>>
        /\ ttrpcServices' =
             IF o = "service"
             THEN ttrpcServices + 1 ELSE ttrpcServices
        /\ ttrpcUnaryInterceptors' =
             IF o = "interceptor"
             THEN ttrpcUnaryInterceptors + 1 ELSE ttrpcUnaryInterceptors
        /\ pprofHandler' = IF o = "pprof" THEN TRUE ELSE pprofHandler
        /\ initErr' = IF o \in {"adderr", "skip", "initerr"} THEN o ELSE "nil"
    /\ UNCHANGED <<flagVars, serveErr, setupVars, sdVars, ioVars, serverBuilt,
                   actVars, cleanVars, procVars>>

\* One iteration of the plugin loop (shim.go:397-461).
RunLoadPlugin ==
    /\ UNCHANGED offBoot
    /\ alive /\ pc = "plugins" /\ plIdx < MaxPlugins
    /\ \E o \in PluginOutcomes :
        /\ plIdx' = plIdx + 1
        /\ IF o = "adderr" THEN Return("plugin set", TRUE)
           ELSE IF o = "initerr" THEN Return("load plugin", TRUE)
           ELSE UNCHANGED <<pc, runErr>>
        /\ ttrpcServices' =
             IF o = "service"
             THEN ttrpcServices + 1 ELSE ttrpcServices
        /\ ttrpcUnaryInterceptors' =
             IF o = "interceptor"
             THEN ttrpcUnaryInterceptors + 1 ELSE ttrpcUnaryInterceptors
        /\ pprofHandler' = IF o = "pprof" THEN TRUE ELSE pprofHandler
        /\ initErr' = IF o \in {"adderr", "skip", "initerr"} THEN o ELSE "nil"
    /\ UNCHANGED <<flagVars, serveErr, setupVars, sdVars, ioVars, serverBuilt,
                   actVars, cleanVars, procVars>>

\* RunCheckServices without the check for an empty service list.
RunCheckServices_NoCheck ==
    /\ UNCHANGED offBoot
    /\ alive /\ pc = "plugins"
    /\ pc' = "newserver"
    /\ initErr' = "none"
    /\ UNCHANGED <<flagVars, runErr, serveErr, setupVars, sdVars, ioVars, plIdx,
                   ttrpcServices, ttrpcUnaryInterceptors, pprofHandler, serverBuilt,
                   actVars, cleanVars, procVars>>

\* The graph is exhausted: the service check (shim.go:463-465).
RunCheckServices ==
    /\ UNCHANGED offBoot
    /\ alive /\ pc = "plugins"
    /\ IF ttrpcServices = 0 THEN Return("required that ttrpc service", TRUE)
       ELSE pc' = "newserver" /\ UNCHANGED runErr
    /\ initErr' = "none"
    /\ UNCHANGED <<flagVars, serveErr, setupVars, sdVars, ioVars, plIdx,
                   ttrpcServices, ttrpcUnaryInterceptors, pprofHandler, serverBuilt,
                   actVars, cleanVars, procVars>>

\* newServer with the chained interceptor (shim.go:467-471).
RunNewServer ==
    /\ UNCHANGED offBoot
    /\ alive /\ pc = "newserver"
    /\ \/ /\ serverBuilt' = TRUE
          /\ pc' = "register"
          /\ UNCHANGED runErr
       \/ /\ Return("failed creating server", TRUE)
          /\ UNCHANGED serverBuilt
    /\ UNCHANGED <<flagVars, serveErr, setupVars, sdVars, ioVars, plIdx,
                   ttrpcServices, ttrpcUnaryInterceptors, pprofHandler, initErr,
                   actVars, cleanVars, procVars>>

\* RegisterTTRPC of every service (shim.go:473-477).
RunRegisterServices ==
    /\ UNCHANGED offBoot
    /\ alive /\ pc = "register"
    /\ \/ pc' = "serve" /\ UNCHANGED runErr
       \/ Return("failed to register service", TRUE)
    /\ UNCHANGED <<flagVars, serveErr, setupVars, sdVars, ioVars, pluginVars,
                   actVars, cleanVars, procVars>>

\* ------------------------------------------------------------------ serve
\* serve returns err to run.
ServeReturn(err) ==
    /\ serveErr' = err
    /\ pc' = "served"

\* setupDumpStacks and os.Getwd (shim.go:502-508).
ServeGetwd ==
    /\ UNCHANGED offBoot
    /\ alive /\ pc = "serve"
    /\ \/ pc' = "listen" /\ UNCHANGED serveErr
       \/ ServeReturn("getwd")
    /\ UNCHANGED <<flagVars, runErr, setupVars, sdVars, ioVars, pluginVars,
                   actVars, cleanVars, procVars>>

\* serveListener(socketFlag, 3) and the primary accept loop (shim.go:510-519).
ServeListen ==
    /\ UNCHANGED offBoot
    /\ alive /\ pc = "listen"
    /\ \/ /\ lPrimary' = "open"
          /\ gPrimary' = "serving"
          /\ pc' = "pprof"
          /\ UNCHANGED serveErr
       \/ /\ ServeReturn("listen")
          /\ UNCHANGED <<lPrimary, gPrimary>>
    /\ UNCHANGED <<flagVars, runErr, setupVars, sdVars, ioVars, pluginVars,
                   lDebug, gDebug, gExit, gReap, termSig, cleanVars, procVars>>

\* setupPprof when debug is on and a pprof server was found; a failure to
\* bind is only logged (shim.go:521-525, 561-574).
ServePprof ==
    /\ UNCHANGED offBoot
    /\ alive /\ pc = "pprof"
    /\ IF debugFlag /\ pprofHandler
       THEN \/ lDebug' = "open" /\ gDebug' = "serving"
            \/ UNCHANGED <<lDebug, gDebug>>
       ELSE UNCHANGED <<lDebug, gDebug>>
    /\ pc' = "loops"
    /\ UNCHANGED <<flagVars, runErr, serveErr, setupVars, sdVars, ioVars, pluginVars,
                   lPrimary, gPrimary, gExit, gReap, termSig, cleanVars, procVars>>

\* ServeStartLoops without the goroutine of handleExitSignals.
ServeStartLoops_NoExitHandler ==
    /\ UNCHANGED offBoot
    /\ alive /\ pc = "loops"
    /\ gReap' = "running"
    /\ pc' = "reap"
    /\ UNCHANGED <<flagVars, runErr, serveErr, setupVars, sdVars, ioVars, pluginVars,
                   lPrimary, lDebug, gPrimary, gDebug, gExit, termSig, cleanVars,
                   procVars>>

\* The stack-dump loop, handleExitSignals and the blocking reap loop are
\* started (shim.go:527-539).
ServeStartLoops ==
    /\ UNCHANGED offBoot
    /\ alive /\ pc = "loops"
    /\ gExit' = "waiting"
    /\ gReap' = "running"
    /\ pc' = "reap"
    /\ UNCHANGED <<flagVars, runErr, serveErr, setupVars, sdVars, ioVars, pluginVars,
                   lPrimary, lDebug, gPrimary, gDebug, termSig, cleanVars, procVars>>

\* shutdown.Service.Shutdown: cancels the shutdown context; a second call
\* changes nothing.
Shutdown == sdCanceled' = TRUE

\* reap returns the context's error once the shutdown context is canceled
\* (shim.go:539).
ReapReturns ==
    /\ UNCHANGED offBoot
    /\ alive /\ pc = "reap" /\ sdCanceled
    /\ gReap' = "returned"
    /\ \E e \in {"ErrShutdown", "other"} : ServeReturn(e)
    /\ UNCHANGED <<flagVars, runErr, setupVars, sdVars, ioVars, pluginVars,
                   lPrimary, lDebug, gPrimary, gDebug, gExit, termSig, cleanVars,
                   procVars>>

\* run after serve returned an error (shim.go:479-485).
RunAfterServe ==
    /\ UNCHANGED offBoot
    /\ alive /\ pc = "served"
    /\ stderrExit1' = stderrExit1 + 1
    /\ IF serveErr # "ErrShutdown"
       THEN /\ \E af \in AddressFileValues :
                 removes' = removes \o cleanupSockets(af)
            /\ cleanups' = cleanups + 1
            /\ Return("serving", TRUE)
       ELSE /\ pc' = "cleanup"
            /\ UNCHANGED <<runErr, cleanVars>>
    /\ UNCHANGED <<flagVars, serveErr, setupVars, sdVars, mgrCalls, mgrStart, stdout,
                   exitCalls, pluginVars, actVars, procVars>>

\* cleanupSockets on the shutdown path (shim.go:487-489).
RunCleanup ==
    /\ UNCHANGED offBoot
    /\ alive /\ pc = "cleanup"
    /\ \E af \in AddressFileValues :
         removes' = removes \o cleanupSockets(af)
    /\ cleanups' = cleanups + 1
    /\ pc' = "grace"
    /\ UNCHANGED <<flagVars, runErr, serveErr, setupVars, sdVars, ioVars, pluginVars,
                   actVars, procVars>>

\* The grace period: sd.Done() (shim.go:491-493).
RunGraceDone ==
    /\ UNCHANGED offBoot
    /\ alive /\ pc = "grace" /\ sdDone
    /\ Return("nil", TRUE)
    /\ UNCHANGED <<flagVars, serveErr, setupVars, sdVars, ioVars, pluginVars,
                   actVars, cleanVars, procVars>>

\* RunGraceTimeout with run returning nil once the five seconds have passed.
RunGraceTimeout_ReturnsNil ==
    /\ UNCHANGED offBoot
    /\ alive /\ pc = "grace" /\ ~sdDone
    /\ Return("nil", TRUE)
    /\ UNCHANGED <<flagVars, serveErr, setupVars, sdVars, ioVars, pluginVars,
                   actVars, cleanVars, procVars>>

\* The grace period: five seconds pass first (shim.go:494-495).
RunGraceTimeout ==
    /\ UNCHANGED offBoot
    /\ alive /\ pc = "grace" /\ ~sdDone
    /\ Return("shim shutdown timeout", TRUE)
    /\ UNCHANGED <<flagVars, serveErr, setupVars, sdVars, ioVars, pluginVars,
                   actVars, cleanVars, procVars>>

\* The deferred sd.Shutdown() as run returns (shim.go:297).
RunDeferred ==
    /\ UNCHANGED offBoot
    /\ alive /\ pc = "defer"
    /\ Shutdown
    /\ pc' = "ret"
    /\ UNCHANGED <<flagVars, runErr, serveErr, setupVars, sdCreated, sdDone,
                   pluginShutdown, ioVars, pluginVars, actVars, cleanVars, procVars>>

\* Run after run returned: config.ExitFunc(1) on an error (shim.go:240-243);
\* the process then ends.
RunReturn ==
    /\ UNCHANGED offBoot
    /\ alive /\ pc = "ret"
    /\ pc' = "done"
    /\ exitCalls' = IF runErr # "nil" THEN Append(exitCalls, 1) ELSE exitCalls
    /\ proc' = "exited"
    /\ exitCode' = IF runErr # "nil" THEN 1 ELSE 0
    /\ UNCHANGED <<flagVars, runErr, serveErr, setupVars, sdVars, mgrCalls, mgrStart,
                   stdout, stderrExit1, pluginVars, actVars, cleanVars>>

\* ------------------------------------------------- concurrent activities
\* The environment delivers a termination signal (SIGINT, SIGTERM) while
\* serve blocks in the reap loop.
TermSignal ==
    /\ UNCHANGED offBoot
    /\ alive /\ pc = "reap" /\ termSig < MaxSignals
    /\ termSig' = termSig + 1
    /\ UNCHANGED <<flagVars, pc, runErr, serveErr, setupVars, sdVars, ioVars,
                   pluginVars, lPrimary, lDebug, gPrimary, gDebug, gExit, gReap,
                   cleanVars, procVars>>

\* handleExitSignals: a termination signal cancels the shutdown context and
\* the handler returns.
HandleExitSignal ==
    /\ UNCHANGED offBoot
    /\ alive /\ gExit = "waiting" /\ termSig > 0
    /\ termSig' = termSig - 1
    /\ Shutdown
    /\ gExit' = "returned"
    /\ UNCHANGED <<flagVars, pc, runErr, serveErr, setupVars, sdCreated, sdDone,
                   pluginShutdown, ioVars, pluginVars, lPrimary, lDebug, gPrimary,
                   gDebug, gReap, cleanVars, procVars>>

\* handleExitSignals: the context is done, the handler returns.
HandleExitDone ==
    /\ UNCHANGED offBoot
    /\ alive /\ gExit = "waiting" /\ sdCanceled
    /\ gExit' = "returned"
    /\ UNCHANGED <<flagVars, pc, runErr, serveErr, setupVars, sdVars, ioVars,
                   pluginVars, lPrimary, lDebug, gPrimary, gDebug, gReap, termSig,
                   cleanVars, procVars>>

\* PluginShutdown with the plugin holding a shutdown service of its own
\* instead of run's: its call does not reach run's shutdown context.
PluginShutdown_OtherService ==
    /\ UNCHANGED offBoot
    /\ alive /\ sdCreated /\ plIdx > 0 /\ pc \notin {"ret", "done"}
    /\ pluginShutdown' = TRUE
    /\ UNCHANGED <<flagVars, pc, runErr, serveErr, setupVars, sdCreated, sdCanceled,
                   sdDone, ioVars, pluginVars, actVars, cleanVars, procVars>>

\* A plugin that holds the shutdown controller (the "shutdown" plugin's
\* instance, shim.go:357-363) calls Shutdown.
PluginShutdown ==
    /\ UNCHANGED offBoot
    /\ alive /\ sdCreated /\ plIdx > 0 /\ pc \notin {"ret", "done"}
    /\ pluginShutdown' = TRUE
    /\ Shutdown
    /\ UNCHANGED <<flagVars, pc, runErr, serveErr, setupVars, sdCreated, sdDone,
                   ioVars, pluginVars, actVars, cleanVars, procVars>>

\* Every consumer of the canceled shutdown context has finished: Done.
ConsumersDone ==
    /\ UNCHANGED offBoot
    /\ alive /\ sdCanceled /\ ~sdDone
    /\ sdDone' = TRUE
    /\ UNCHANGED <<flagVars, pc, runErr, serveErr, setupVars, sdCreated, sdCanceled,
                   pluginShutdown, ioVars, pluginVars, actVars, cleanVars, procVars>>

\* The primary accept loop: server.Serve returns nil or net.ErrClosed, the
\* deferred l.Close() runs (shim.go:514-519).
PrimaryServeReturns ==
    /\ UNCHANGED offBoot
    /\ alive /\ gPrimary = "serving"
    /\ gPrimary' = "returned"
    /\ lPrimary' = "closed"
    /\ UNCHANGED <<flagVars, pc, runErr, serveErr, setupVars, sdVars, ioVars,
                   pluginVars, lDebug, gDebug, gExit, gReap, termSig, cleanVars,
                   procVars>>

\* The logger's Fatal: the entry is written and the process exits with
\* code 1, at once.
Fatal ==
    /\ proc' = "exited"
    /\ exitCode' = 1

\* The primary accept loop: server.Serve returns another error
\* (shim.go:516-518).
PrimaryServeFails ==
    /\ UNCHANGED offBoot
    /\ alive /\ gPrimary = "serving"
    /\ gPrimary' = "fatal"
    /\ Fatal
    /\ UNCHANGED <<flagVars, pc, runErr, serveErr, setupVars, sdVars, ioVars,
                   pluginVars, lPrimary, lDebug, gDebug, gExit, gReap, termSig,
                   cleanVars>>

\* The debug accept loop: srv.Serve returns nil or net.ErrClosed
\* (shim.go:567-571).
DebugServeReturns ==
    /\ UNCHANGED offBoot
    /\ alive /\ gDebug = "serving"
    /\ gDebug' = "returned"
    /\ UNCHANGED <<flagVars, pc, runErr, serveErr, setupVars, sdVars, ioVars,
                   pluginVars, lPrimary, lDebug, gPrimary, gExit, gReap, termSig,
                   cleanVars, procVars>>

\* The debug accept loop: srv.Serve returns another error (shim.go:568-570).
DebugServeFails ==
    /\ UNCHANGED offBoot
    /\ alive /\ gDebug = "serving"
    /\ gDebug' = "fatal"
    /\ Fatal
    /\ UNCHANGED <<flagVars, pc, runErr, serveErr, setupVars, sdVars, ioVars,
                   pluginVars, lPrimary, lDebug, gPrimary, gExit, gReap, termSig,
                   cleanVars>>

MainStep ==
    \/ RunVersion \/ RunInfo \/ RunNamespaceEmpty \/ RunSetRuntime
    \/ RunSetupSignals \/ RunSubreaper \/ RunWithShutdown
    \/ RunDelete \/ RunDeleteStop \/ RunStart \/ RunSetLogger
    \/ RunLoadPlugin \/ RunCheckServices \/ RunNewServer \/ RunRegisterServices
    \/ ServeGetwd \/ ServeListen \/ ServePprof \/ ServeStartLoops \/ ReapReturns
    \/ RunAfterServe \/ RunCleanup \/ RunGraceDone \/ RunGraceTimeout
    \/ RunDeferred \/ RunReturn

Next ==
    \/ MainStep
    \/ TermSignal \/ HandleExitSignal \/ HandleExitDone
    \/ PluginShutdown \/ ConsumersDone
    \/ PrimaryServeReturns \/ PrimaryServeFails
    \/ DebugServeReturns \/ DebugServeFails

Spec == Init /\ [][Next]_vars

\* ----------------------------------------------------- the serve action
\* The shim is started to serve: no version or info flag, a namespace, no
\* start or delete argument, the sockets at their default addresses.
InitServe ==
    /\ Init
    /\ ~versionFlag /\ ~infoFlag
    /\ namespaceFlag = <<"ns1">>
    /\ action = <<>>
    /\ socketFlag = <<>> /\ debugSocketFlag = <<>>

\* The steps of the goroutine that runs run and serve, on the serve path.
ServeMain ==
    \/ RunSetRuntime \/ RunSetupSignals \/ RunSubreaper \/ RunWithShutdown
    \/ RunSetLogger \/ RunLoadPlugin \/ RunCheckServices \/ RunNewServer
    \/ RunRegisterServices \/ ServeGetwd \/ ServeListen \/ ServePprof
    \/ ServeStartLoops \/ ReapReturns \/ RunAfterServe \/ RunCleanup
    \/ RunGraceDone \/ RunGraceTimeout \/ RunDeferred \/ RunReturn

\* The steps of that goroutine from the reap loop on.
ServeTail ==
    \/ ReapReturns \/ RunAfterServe \/ RunCleanup
    \/ RunGraceDone \/ RunGraceTimeout \/ RunDeferred \/ RunReturn

NextServe ==
    \/ ServeMain
    \/ TermSignal \/ HandleExitSignal \/ HandleExitDone
    \/ PluginShutdown \/ ConsumersDone
    \/ PrimaryServeReturns \/ PrimaryServeFails
    \/ DebugServeReturns \/ DebugServeFails

\* The Go scheduler runs every runnable goroutine: the goroutine of run, once
\* serve is in the reap loop, and the goroutine of handleExitSignals take
\* their next step when they can. Signals, plugin shutdowns and accept-loop
\* results come from outside and are not forced.
SpecServe ==
    /\ InitServe /\ [][NextServe]_vars
    /\ WF_vars(ServeTail)
    /\ WF_vars(HandleExitSignal)

\* ------------------------------------------------- the stack-dump loop
\* Stack-dump signals the environment delivers in one run.
MaxDumpSignals == 1

\* setupDumpStacks(dump) has registered the channel (shim.go:502-503): serve
\* has begun, and maybe returned.
DumpRegistered ==
    pc \in {"listen", "pprof", "loops", "reap"} \/ serveErr # "none"

\* The goroutine ranging over dump has been started (shim.go:532-536): serve
\* has reached reap, and maybe returned from it.
DumpLoopStarted ==
    pc = "reap" \/ gReap = "returned"

\* The environment delivers a stack-dump signal: it waits in the channel.
DumpSignal ==
    /\ alive /\ DumpRegistered
    /\ dumpSig + dumps < MaxDumpSignals
    /\ dumpSig' = dumpSig + 1
    /\ UNCHANGED <<offDiag, dumps>>

\* DumpStacksStep with the handler treating the signal as a request to stop:
\* it calls shutdown.
DumpStacksStep_Shutdown ==
    /\ alive /\ DumpLoopStarted /\ dumpSig > 0
    /\ dumpSig' = dumpSig - 1
    /\ dumps' = dumps + 1
    /\ Shutdown
    /\ UNCHANGED <<flagVars, pc, runErr, serveErr, setupVars, sdCreated, sdDone,
                   pluginShutdown, ioVars, pluginVars, actVars, cleanVars, procVars,
                   dialVars, sockVars>>

\* The loop takes a signal from the channel and calls dumpStacks, which
\* reads the goroutines' stacks into a buffer and logs them
\* (shim.go:532-536, 542-555).
DumpStacksStep ==
    /\ alive /\ DumpLoopStarted /\ dumpSig > 0
    /\ dumpSig' = dumpSig - 1
    /\ dumps' = dumps + 1
    /\ UNCHANGED offDiag

\* The serve action with the stack-dump signals.
NextDiag == NextServe \/ DumpSignal \/ DumpStacksStep

SpecDiag == InitServe /\ [][NextDiag]_vars

\* ------------------------------------------------------ hybridVsockDialer
\* The most end-of-stream answers the server gives before its final answer.
MaxEOFs == 11
\* The timeouts dialed with (time.Duration, in its unit).
DialTimeouts == {5, 10, 20}
\* The server's answer once it listens: a line with OK, a line without, or
\* a read error other than end-of-stream.
FinalAnswers == {"OK", "BAD", "ERR"}

\* No bootstrap is in progress: the dialer is called from another process.
BootIdle ==
    /\ versionFlag = FALSE /\ infoFlag = FALSE /\ debugFlag = FALSE
    /\ namespaceFlag = <<>> /\ action = <<>>
    /\ socketFlag = <<>> /\ debugSocketFlag = <<>>
    /\ addressFlag = AddressFlagValue /\ id = IdValue
    /\ pc = "idle" /\ runErr = "none" /\ serveErr = "none"
    /\ tuned = FALSE /\ signalsSet = FALSE /\ subreaperSet = FALSE
    /\ sdCreated = FALSE /\ sdCanceled = FALSE /\ sdDone = FALSE
    /\ pluginShutdown = FALSE
    /\ mgrCalls = <<>> /\ mgrStart = [state |-> "none", params |-> NoParams] /\ stdout = <<>>
    /\ stderrExit1 = 0 /\ exitCalls = <<>>
    /\ plIdx = 0 /\ ttrpcServices = 0 /\ ttrpcUnaryInterceptors = 0 /\ initErr = "none"
    /\ pprofHandler = FALSE /\ serverBuilt = FALSE
    /\ lPrimary = "none" /\ lDebug = "none"
    /\ gPrimary = "none" /\ gDebug = "none" /\ gExit = "none" /\ gReap = "none"
    /\ termSig = 0
    /\ cleanups = 0 /\ removes = <<>>
    /\ proc = "running" /\ exitCode = 0
    /\ DiagIdle
    /\ SockIdle

\* hybridVsockDialer(addr, port, timeout) is called; the server answers
\* end-of-stream dN times, then srvFinal.
InitDial ==
    /\ BootIdle
    /\ dTimeout \in DialTimeouts
    /\ dN \in 0..MaxEOFs
    /\ srvEOFs = dN
    /\ srvFinal \in FinalAnswers
    /\ dNow = 0
    /\ dPc = "start" /\ dConn = "none" /\ dReader = "none" /\ dRead = "none"
    /\ errChan = "empty" /\ timeoutCh = "unset" /\ dRecv = "none"
    /\ dAttempts = 0 /\ dOpen = 0 /\ dResult = "none"

\* retryInterval := timeout / 10 (socket_unix.go:324).
retryInterval == dTimeout \div 10

\* hybridVsockDialer returns (conn, err).
DialReturn(r) ==
    /\ dResult' = r
    /\ dPc' = "done"

\* conn.Close()
ConnClose ==
    /\ dConn' = "closed"
    /\ dOpen' = dOpen - 1

\* time.After(timeout) and the retry interval (socket_unix.go:322-324).
DialStart ==
    /\ UNCHANGED offDial
    /\ dPc = "start"
    /\ dPc' = "dial"
    /\ UNCHANGED <<dTimeout, dN, srvEOFs, srvFinal, dNow, dConn, dReader, dRead,
                   errChan, timeoutCh, dRecv, dAttempts, dOpen, dResult>>

\* The timer of time.After sends on timeoutCh once the timeout has passed.
TimerFires ==
    /\ UNCHANGED offDial
    /\ dPc # "start" /\ timeoutCh = "unset" /\ dNow >= dTimeout
    /\ timeoutCh' = "ready"
    /\ UNCHANGED <<dTimeout, dN, srvEOFs, srvFinal, dNow, dPc, dConn, dReader, dRead,
                   errChan, dRecv, dAttempts, dOpen, dResult>>

\* net.DialTimeout("unix", addr, timeout) (socket_unix.go:326-329).
DialConnect ==
    /\ UNCHANGED offDial
    /\ dPc = "dial"
    /\ dAttempts' = dAttempts + 1
    /\ \/ /\ dConn' = "open"
          /\ dOpen' = dOpen + 1
          /\ dPc' = "write"
          /\ UNCHANGED dResult
       \/ /\ DialReturn("dialerr")
          /\ UNCHANGED <<dConn, dOpen>>
    /\ UNCHANGED <<dTimeout, dN, srvEOFs, srvFinal, dNow, dReader, dRead, errChan,
                   timeoutCh, dRecv>>

\* fmt.Fprintln(conn, "CONNECT", port) (socket_unix.go:330-333).
DialWrite ==
    /\ UNCHANGED offDial
    /\ dPc = "write"
    /\ \/ /\ dPc' = "spawn"
          /\ UNCHANGED <<dConn, dOpen, dResult>>
       \/ /\ ConnClose
          /\ DialReturn("writeerr")
    /\ UNCHANGED <<dTimeout, dN, srvEOFs, srvFinal, dNow, dReader, dRead, errChan,
                   timeoutCh, dRecv, dAttempts>>

\* errChan := make(chan error, 1) and the reader is started
\* (socket_unix.go:334-335).
DialSpawnReader ==
    /\ UNCHANGED offDial
    /\ dPc = "spawn"
    /\ errChan' = "empty"
    /\ dReader' = "reading"
    /\ dRead' = "none"
    /\ dPc' = "select"
    /\ UNCHANGED <<dTimeout, dN, srvEOFs, srvFinal, dNow, dConn, timeoutCh, dRecv,
                   dAttempts, dOpen, dResult>>

\* What reader.ReadString gives: an error of the closed connection, the
\* server's end-of-stream, or the server's final answer (socket_unix.go:336-346).
ReadResponse ==
    IF dConn = "closed" THEN "closed"
    ELSE IF srvEOFs > 0 THEN "EOF"
    ELSE IF srvFinal = "OK" THEN "nil"
    ELSE IF srvFinal = "BAD" THEN "proto"
    ELSE "readerr"

\* The reader reads one line and sends its one result (socket_unix.go:335-347).
ReaderReads ==
    /\ UNCHANGED offDial
    /\ dReader = "reading"
    /\ dRead' = ReadResponse
    /\ errChan' = ReadResponse
    /\ srvEOFs' = IF ReadResponse = "EOF" THEN srvEOFs - 1 ELSE srvEOFs
    /\ dReader' = "sent"
    /\ UNCHANGED <<dTimeout, dN, srvFinal, dNow, dPc, dConn, timeoutCh, dRecv,
                   dAttempts, dOpen, dResult>>

\* OnReaderResult with every error retried, not only io.EOF.
OnReaderResult_RetryAnyError(err) ==
    IF err = "nil" THEN "return conn" ELSE "sleep"

\* What the loop does with the error err received from errChan: a new attempt
\* after time.Sleep only on io.EOF (socket_unix.go:349-360).
OnReaderResult(err) ==
    IF err = "nil" THEN "return conn"
    ELSE IF err = "EOF" THEN "sleep"
    ELSE "return err"

\* select, case err = <-errChan (socket_unix.go:349-360).
DialSelectErr ==
    /\ UNCHANGED offDial
    /\ dPc = "select" /\ errChan # "empty"
    /\ dRecv' = errChan
    /\ errChan' = "empty"
    /\ IF OnReaderResult(errChan) = "return conn"
       THEN /\ DialReturn("conn")
            /\ UNCHANGED <<dConn, dOpen>>
       ELSE IF OnReaderResult(errChan) = "sleep"
       THEN /\ ConnClose
            /\ dPc' = "sleep"
            /\ UNCHANGED dResult
       ELSE /\ ConnClose
            /\ DialReturn(errChan)
    /\ UNCHANGED <<dTimeout, dN, srvEOFs, srvFinal, dNow, dReader, dRead, timeoutCh,
                   dAttempts>>

\* DialSelectTimeout returning without closing the connection.
DialSelectTimeout_NoClose ==
    /\ UNCHANGED offDial
    /\ dPc = "select" /\ timeoutCh = "ready"
    /\ timeoutCh' = "taken"
    /\ DialReturn("timeout")
    /\ UNCHANGED <<dTimeout, dN, srvEOFs, srvFinal, dNow, dReader, dRead, errChan,
                   dRecv, dAttempts, dConn, dOpen>>

\* select, case <-timeoutCh (socket_unix.go:361-363).
DialSelectTimeout ==
    /\ UNCHANGED offDial
    /\ dPc = "select" /\ timeoutCh = "ready"
    /\ timeoutCh' = "taken"
    /\ ConnClose
    /\ DialReturn("timeout")
    /\ UNCHANGED <<dTimeout, dN, srvEOFs, srvFinal, dNow, dReader, dRead, errChan,
                   dRecv, dAttempts>>

\* time.Sleep(retryInterval); continue (socket_unix.go:355-356).
DialSleep ==
    /\ UNCHANGED offDial
    /\ dPc = "sleep"
    /\ dNow' = dNow + retryInterval
    /\ dPc' = "dial"
    /\ UNCHANGED <<dTimeout, dN, srvEOFs, srvFinal, dConn, dReader, dRead, errChan,
                   timeoutCh, dRecv, dAttempts, dOpen, dResult>>

NextDial ==
    \/ DialStart \/ TimerFires \/ DialConnect \/ DialWrite \/ DialSpawnReader
    \/ ReaderReads \/ DialSelectErr \/ DialSelectTimeout \/ DialSleep

SpecDial == InitDial /\ [][NextDial]_vars

\* The reader is scheduled, and its read returns: the server answers or the
\* connection is closed under it.
SpecDialFair == SpecDial /\ WF_vars(ReaderReads)

\* ================================================================ claims
\* -------------------------------------------------------------------- C3
\* C3: for a server that answers end-of-stream dN times and then OK, and a
\* dial whose connect and write succeed, the dial returns a connection if and
\* only if dN * (timeout / 10) < timeout, and the timeout error otherwise,
\* whatever the interleaving of the reader and the timer.
C3_SucceedsIffRetriesFit ==
    (dPc = "done" /\ srvFinal = "OK" /\ dResult \notin {"dialerr", "writeerr"})
        => /\ (dResult = "conn") <=> (dN * retryInterval < dTimeout)
           /\ dResult # "conn" => dResult = "timeout"

\* -------------------------------------------------------------------- C4
\* What the dial returns for the reader's result r, when it returns it.
ResultFor(r) == IF r = "nil" THEN "conn" ELSE r

\* C4, as stated: only an end-of-stream read error leads to a new attempt; a
\* line with OK that was read returns the open connection, a line without OK
\* the protocol error, another read error that error.
C4_AnswerDecidesResult ==
    /\ (dPc \in {"sleep", "dial"} /\ dAttempts >= 1) => dRead = "EOF"
    /\ (dPc = "done" /\ dRead \in {"nil", "proto", "readerr"})
           => dResult = ResultFor(dRead)

\* C4, amended: only an end-of-stream error received from the reader leads
\* to a new attempt; a received nil returns the open connection, a received
\* protocol error or other read error is returned with the connection closed
\* and no further attempt; when the timer has fired the dial may return the
\* timeout error instead of the answer that was read, with no further attempt.
C4_RetryOnlyOnEOF ==
    /\ (dPc \in {"sleep", "dial"} /\ dAttempts >= 1) => (dRecv = "EOF" /\ dRead = "EOF")
    /\ dRecv = "nil" => (dPc = "done" /\ dResult = "conn" /\ dConn = "open")
    /\ dRecv \in {"proto", "readerr"}
           => (dPc = "done" /\ dResult = dRecv /\ dConn = "closed")
    /\ dRead \in {"nil", "proto", "readerr"} => dPc \in {"select", "done"}
    /\ (dPc = "done" /\ dRead \in {"nil", "proto", "readerr"})
           => (dResult = ResultFor(dRead) \/ (dResult = "timeout" /\ dNow >= dTimeout))

\* C4's case: after end-of-stream retries the server answers a line without
\* OK and the dial returns the protocol error.
C4_Witness ==
    dPc = "done" /\ dAttempts >= 2 /\ dRecv = "proto" /\ dResult = "proto"

\* -------------------------------------------------------------------- C1
InSeq(x, sq) == \E i \in 1..Len(sq) : sq[i] = x

\* The path of the primary and of the debug socket, as cleanupSockets
\* derives them from the flags.
PrimaryPath ==
    IF Len(socketFlag) > 0 THEN path(UnixPrefix \o socketFlag)
    ELSE path(SocketAddress(addressFlag, id, FALSE).addr)
DebugPath ==
    IF Len(debugSocketFlag) > 0 THEN path(UnixPrefix \o debugSocketFlag)
    ELSE path(SocketAddress(addressFlag, id, TRUE).addr)

\* C1: once the primary listener has been bound, the process exits only
\* after socket cleanup has run and has called remove on the primary and on
\* the debug socket path.
C1_CleanupOnEveryExit ==
    (proc = "exited" /\ lPrimary # "none")
        => (cleanups >= 1 /\ InSeq(PrimaryPath, removes) /\ InSeq(DebugPath, removes))

\* -------------------------------------------------------------------- C2
\* C2: socket cleanup runs at most once in a run and no path is the target
\* of two remove operations.
C2_EachPathRemovedOnce ==
    /\ cleanups <= 1
    /\ \A i, j \in 1..Len(removes) : i # j => removes[i] # removes[j]

\* -------------------------------------------------------------------- C5
\* C5: while no loaded plugin instance is a service, the RPC server is not
\* built and no listener is bound, run never gets past the service check,
\* and on the serve path run does not return success.
C5_NoServiceNoListener ==
    ttrpcServices = 0
        => /\ ~serverBuilt
           /\ lPrimary = "none" /\ lDebug = "none"
           /\ gPrimary = "none" /\ gDebug = "none"
           /\ pc \notin {"newserver", "register", "serve", "listen", "pprof", "loops",
                         "reap", "served", "cleanup", "grace"}
           /\ (pc \in {"defer", "ret", "done"} /\ sdCreated
                 /\ ~versionFlag /\ ~infoFlag
                 /\ action \notin {<<"start">>, <<"delete">>})
                => runErr \in {"logger", "plugin set", "load plugin",
                               "required that ttrpc service"}

\* C5's case: every plugin of the graph was loaded, none is a service, and
\* run has returned the error.
C5_Witness ==
    /\ pc = "done" /\ plIdx = MaxPlugins /\ ttrpcServices = 0
    /\ runErr = "required that ttrpc service" /\ exitCode = 1

\* -------------------------------------------------------------------- C6
\* C6: the exit callback is called at most once and only with code 1, and
\* not before the process ends; a process that has ended with an error (exit
\* code 1) has called it exactly once, one that has ended normally (exit
\* code 0) has not called it.
C6_ExitCallbackOnEveryError ==
    /\ Len(exitCalls) <= 1
    /\ \A i \in 1..Len(exitCalls) : exitCalls[i] = 1
    /\ proc # "exited" => exitCalls = <<>>
    /\ (proc = "exited" /\ exitCode = 1) => exitCalls = <<1>>
    /\ (proc = "exited" /\ exitCode = 0) => exitCalls = <<>>

\* -------------------------------------------------------------------- C7
\* C7: at most one manager operation is called in a run, and it is the one of
\* the action the flags select, the version flag before the info flag
\* before the positional argument; the version and info actions go no
\* further than their own branch; a listener is bound only by the serve action.
C7_ExactlyOneAction ==
    /\ Len(mgrCalls) <= 1
    /\ versionFlag
         => (mgrCalls = <<>> /\ stdout = <<>> /\ pc \in {"run", "ret", "done"}
             /\ runErr \in {"none", "nil"})
    /\ (~versionFlag /\ infoFlag)
         => (mgrCalls \in {<<>>, <<"Info">>} /\ pc \in {"run", "ret", "done"}
             /\ (pc # "run" => mgrCalls = <<"Info">>))
    /\ InSeq("Info", mgrCalls) => (~versionFlag /\ infoFlag)
    /\ InSeq("Start", mgrCalls)
         => (~versionFlag /\ ~infoFlag /\ action = <<"start">>)
    /\ InSeq("Stop", mgrCalls)
         => (~versionFlag /\ ~infoFlag /\ action = <<"delete">>)
    /\ (lPrimary # "none" \/ lDebug # "none")
         => (~versionFlag /\ ~infoFlag /\ action \notin {<<"start">>, <<"delete">>}
             /\ mgrCalls = <<>>)
    /\ (pc = "done" /\ runErr = "nil" /\ ~versionFlag /\ ~infoFlag
          /\ action \in {<<"start">>, <<"delete">>})
         => Len(mgrCalls) = 1

\* C7's case: the version and the info flag and a positional action are all
\* given, and run has returned without calling the manager.
C7_Witness ==
    /\ versionFlag /\ infoFlag /\ action = <<"start">>
    /\ pc = "done" /\ runErr = "nil" /\ mgrCalls = <<>>

\* -------------------------------------------------------------------- C8
\* C8: with an empty namespace the start, delete and serve actions return
\* the namespace error with the manager not called, the runtime not tuned,
\* no signals installed, no subreaper set and no listener bound; the version
\* and info actions never return the namespace error.
C8_NamespaceRequired ==
    /\ (namespaceFlag = <<>> /\ ~versionFlag /\ ~infoFlag)
         => /\ mgrCalls = <<>>
            /\ ~tuned /\ ~signalsSet /\ ~subreaperSet /\ ~sdCreated
            /\ lPrimary = "none" /\ lDebug = "none"
            /\ pc \in {"run", "ret", "done"}
            /\ pc # "run" => runErr = "namespace"
    /\ (versionFlag \/ infoFlag) => runErr # "namespace"
    /\ (versionFlag /\ pc = "done") => runErr = "nil"

\* C8's case: the start action with an empty namespace has ended with the
\* namespace error.
C8_Witness ==
    /\ namespaceFlag = <<>> /\ ~versionFlag /\ ~infoFlag /\ action = <<"start">>
    /\ pc = "done" /\ runErr = "namespace" /\ exitCalls = <<1>>

\* -------------------------------------------------------------------- C9
\* The writes of bootstrap params to the output stream.
ParamWrites == {i \in 1..Len(stdout) : stdout[i].kind = "params"}

SignalWhileServing == alive /\ pc = "reap" /\ termSig > 0

\* An accept loop has ended the process through the logger's Fatal.
AcceptLoopFatal == gPrimary = "fatal" \/ gDebug = "fatal"

C11_GraceDecidesResult ==
    /\ [][(pc = "grace" /\ pc' # "grace")
            => /\ cleanups = 1 /\ sdCanceled
               /\ runErr' = IF sdDone THEN "nil" ELSE "shim shutdown timeout"
               /\ pc' = "defer"]_vars
    /\ [](runErr = "shim shutdown timeout"
            => (cleanups = 1 /\ serveErr = "ErrShutdown"))
    /\ []((pc = "done" /\ runErr = "shim shutdown timeout")
            => (exitCode = 1 /\ exitCalls = <<1>>))
    /\ []((pc = "done" /\ runErr = "nil" /\ cleanups = 1)
            => (exitCode = 0 /\ exitCalls = <<>> /\ sdDone))

\* C11's case: the grace period ran out and the process ended with code 1.
C11_Witness ==
    /\ pc = "done" /\ runErr = "shim shutdown timeout" /\ cleanups = 1
    /\ exitCode = 1 /\ exitCalls = <<1>>

\* ------------------------------------------------------------------- C12
\* C12: a run that has ended after the shutdown context was canceled while
\* serve was blocked (reap returned the shutdown error) has left no accept
\* loop serving and no listener of a started accept loop open: every accept
\* loop that was started has closed its listener and returned.
C12_LoopsStopAfterCancel ==
    (pc = "done" /\ sdCanceled /\ serveErr = "ErrShutdown")
        => /\ gPrimary # "none" => (gPrimary = "returned" /\ lPrimary = "closed")
           /\ gDebug # "none" => (gDebug = "returned" /\ lDebug = "closed")

\* ------------------------------------------------------------------- C13
\* A step that triggers the cancellation: the termination-signal handler, a
\* plugin holding the shutdown controller, the deferred call as run returns.
TriggersShutdown == HandleExitSignal \/ PluginShutdown \/ RunDeferred

C14_PrimaryReturnLeadsToCleanup ==
    (pc = "reap" /\ gPrimary \in {"returned", "fatal"}) ~> (cleanups >= 1)

\* ------------------------------------------------------------------- C15
\* C15: a step of the stack-dump loop leaves the shutdown context, the
\* listeners and accept loops, the socket cleanup done so far, the progress
\* of run and serve and the process itself unchanged; so does the arrival of
\* a stack-dump signal; and a process that has ended has ended by run
\* returning or by a failure of an accept loop, never by a stack dump.
C15_DumpChangesNothing ==
    /\ [][(dumps' # dumps \/ dumpSig' # dumpSig) => UNCHANGED bootVars]_vars
    /\ [][proc' # proc => (dumps' = dumps /\ dumpSig' = dumpSig)]_vars

\* C15's case: a stack dump was logged while serve blocks in reap with the
\* listener open and the shutdown context not canceled.
C15_Witness ==
    /\ dumps >= 1 /\ pc = "reap" /\ alive
    /\ ~sdCanceled /\ lPrimary = "open" /\ cleanups = 0

\* ----------------------------------------------------- socket functions
\* The calls of the socket functions one behaviour makes.
MaxCalls == 3

protoVsock == "vsock"
protoHybridVsock == "hvsock"
protoUnix == "unix"

\* strings.Cut(s, sep): s around the first sep.
Cut(s, sep) ==
    LET hits == {i \in 1..Len(s) : s[i] = sep}
        first == CHOOSE i \in hits : \A j \in hits : i <= j
    IN  IF hits = {}
        THEN [before |-> s, after |-> <<>>, found |-> FALSE]
        ELSE [before |-> SubSeq(s, 1, first - 1),
              after |-> SubSeq(s, first + 1, Len(s)), found |-> TRUE]

\* Decimal numerals are sequences of digit characters; a number is its
\* numeral without leading zeros (zero is the empty numeral), so that
\* 64-bit values are exact.
DigitChars == <<"0", "1", "2", "3", "4", "5", "6", "7", "8", "9">>
IsDigit(c) == \E i \in 1..10 : DigitChars[i] = c
DigitVal(c) == (CHOOSE i \in 1..10 : DigitChars[i] = c) - 1
Numeral(ds) == [i \in 1..Len(ds) |-> DigitChars[ds[i] + 1]]

RECURSIVE Canonical(_)
Canonical(s) == IF s # <<>> /\ s[1] = "0" THEN Canonical(Tail(s)) ELSE s

\* a > b, for numbers.
NumGreater(a, b) ==
    \/ Len(a) > Len(b)
    \/ /\ Len(a) = Len(b)
       /\ \E i \in 1..Len(a) :
            /\ DigitVal(a[i]) > DigitVal(b[i])
            /\ \A j \in 1..(i - 1) : a[j] = b[j]

\* math.MaxUint32 and math.MaxUint64.
MaxUint32 == Numeral(<<4, 2, 9, 4, 9, 6, 7, 2, 9, 5>>)
MaxUint64 == Numeral(<<1, 8, 4, 4, 6, 7, 4, 4, 0, 7, 3, 7, 0, 9, 5, 5, 1, 6, 1, 5>>)

\* The loop of strconv.ParseUint(s, 10, 0) from character i with n
\* accumulated: a character that is no digit is a syntax error, a value
\* above the 64 bits of uint a range error.
RECURSIVE ParseLoop(_, _, _)
ParseLoop(s, i, n) ==
    IF i > Len(s) THEN [err |-> "nil", n |-> n]
    ELSE IF ~IsDigit(s[i]) THEN [err |-> "invalid syntax", n |-> <<>>]
    ELSE IF NumGreater(Canonical(n \o <<s[i]>>), MaxUint64)
         THEN [err |-> "value out of range", n |-> MaxUint64]
    ELSE ParseLoop(s, i + 1, Canonical(n \o <<s[i]>>))

\* strconv.ParseUint(s, 10, 0)
ParseUint(s) ==
    IF s = <<>> THEN [err |-> "invalid syntax", n |-> <<>>]
    ELSE ParseLoop(s, 1, <<>>)

\* What a dial attempt returns: a connection, or the system's error.
DialAnswers == {"nil", "connection refused"}

\* dialVsock without the range check of the port.
dialVsock_NoPortRange(address, answer) ==
    LET c == Cut(address, ":")
        contextID == ParseUint(c.before)
        port == ParseUint(c.after)
    IN  IF ~c.found THEN [err |-> "invalid vsock address", ops |-> <<>>]
        ELSE IF contextID.err # "nil"
             THEN [err |-> "failed to parse vsock context id", ops |-> <<>>]
        ELSE IF NumGreater(contextID.n, MaxUint32)
             THEN [err |-> "vsock context id is invalid", ops |-> <<>>]
        ELSE IF port.err # "nil"
             THEN [err |-> "failed to parse vsock port", ops |-> <<>>]
        ELSE [err |-> answer,
              ops |-> <<[op |-> "vsock.Dial", a |-> <<contextID.n, port.n>>, err |-> answer]>>]

\* dialVsock(address): the error it returns and the dial it makes.
dialVsock(address, answer) ==
    LET c == Cut(address, ":")
        contextID == ParseUint(c.before)
        port == ParseUint(c.after)
    IN  IF ~c.found THEN [err |-> "invalid vsock address", ops |-> <<>>]
        ELSE IF contextID.err # "nil"
             THEN [err |-> "failed to parse vsock context id", ops |-> <<>>]
        ELSE IF NumGreater(contextID.n, MaxUint32)
             THEN [err |-> "vsock context id is invalid", ops |-> <<>>]
        ELSE IF port.err # "nil"
             THEN [err |-> "failed to parse vsock port", ops |-> <<>>]
        ELSE IF NumGreater(port.n, MaxUint32)
             THEN [err |-> "vsock port is invalid", ops |-> <<>>]
        ELSE [err |-> answer,
              ops |-> <<[op |-> "vsock.Dial", a |-> <<contextID.n, port.n>>, err |-> answer]>>]

\* dialHybridVsock(address, timeout): hybridVsockDialer, whose handshake is
\* the subject of SpecDial, is one dial here.
dialHybridVsock(address, timeout, answer) ==
    LET c == Cut(address, ":")
        port == ParseUint(c.after)
    IN  IF ~c.found THEN [err |-> "invalid hybrid vsock address", ops |-> <<>>]
        ELSE IF port.err # "nil"
             THEN [err |-> "failed to parse hybrid vsock port", ops |-> <<>>]
        ELSE IF NumGreater(port.n, MaxUint32)
             THEN [err |-> "hybrid vsock port is invalid", ops |-> <<>>]
        ELSE [err |-> answer,
              ops |-> <<[op |-> "hybridVsockDialer", a |-> <<c.before, port.n, timeout>>,
                         err |-> answer]>>]

\* net.DialTimeout("unix", socket(address).path(), timeout)
DialUnix(address, timeout, answer) ==
    [err |-> answer,
     ops |-> <<[op |-> "net.DialTimeout", a |-> <<"unix", path(address), timeout>>,
                err |-> answer]>>]

\* AnonDialer dialing an address without a scheme as the path it names.
AnonDialer_BareIsPath(address, timeout, answer) ==
    LET c == Cut(address, "://")
    IN  IF ~c.found THEN DialUnix(UnixPrefix \o address, timeout, answer)
        ELSE IF c.before = <<protoVsock>> THEN dialVsock(c.after, answer)
        ELSE IF c.before = <<protoHybridVsock>>
             THEN dialHybridVsock(c.after, timeout, answer)
        ELSE IF c.before = <<protoUnix>> THEN DialUnix(address, timeout, answer)
        ELSE [err |-> "unsupported protocol", ops |-> <<>>]

\* AnonDialer(address, timeout)
AnonDialer(address, timeout, answer) ==
    LET c == Cut(address, "://")
    IN  IF ~c.found THEN DialUnix(address, timeout, answer)
        ELSE IF c.before = <<protoVsock>> THEN dialVsock(c.after, answer)
        ELSE IF c.before = <<protoHybridVsock>>
             THEN dialHybridVsock(c.after, timeout, answer)
        ELSE IF c.before = <<protoUnix>> THEN DialUnix(address, timeout, answer)
        ELSE [err |-> "unsupported protocol", ops |-> <<>>]

\* The numerals, and the strings that are none, an address is made of.
NumeralValues ==
    { <<>>, <<"0">>, <<"7">>, <<"0", "0", "7">>,
      MaxUint32, Numeral(<<4, 2, 9, 4, 9, 6, 7, 2, 9, 6>>),
      <<"0">> \o MaxUint32,
      MaxUint64, Numeral(<<1, 8, 4, 4, 6, 7, 4, 4, 0, 7, 3, 7, 0, 9, 5, 5, 1, 6, 1, 6>>),
      <<"-", "1">>, <<"+", "1">>, <<"1", "x">> }
VsockValues ==
    {c \o <<":">> \o p : c \in NumeralValues, p \in NumeralValues}
        \cup NumeralValues \cup {<<"3", ":", "4", ":", "5">>}
HybridVsockValues ==
    {<<"/", "h.sock", ":">> \o p : p \in NumeralValues} \cup {<<"/", "h.sock">>}
UnixPathValues == {<<"/", "p.sock">>, <<"/", "run", "/", "q.sock">>, <<"p.sock">>}
DialAddressValues ==
    {<<protoVsock, "://">> \o a : a \in VsockValues}
        \cup {<<protoHybridVsock, "://">> \o a : a \in HybridVsockValues}
        \cup {<<protoUnix, "://">> \o a : a \in UnixPathValues}
        \cup UnixPathValues
        \cup {<<"tcp", "://", "h", ":", "1">>}

\* What the socket functions leave alone.
offSock == <<bootVars, dialVars, diagVars>>

\* The calls a process makes first: the function and its arguments.
DialRequests ==
    {[fn |-> "AnonDialer", args |-> <<a, t>>] : a \in DialAddressValues, t \in DialTimeouts}
\* The --address flag of a process that calls the socket functions, and the
\* socketPath it passes.
AddressFlagValues == {AddressFlagValue, <<"/", "other", "/", "c.sock">>}
AddressRequests ==
    {[fn |-> "SocketAddress", args |-> <<p, IdValue, d>>] : p \in AddressFlagValues, d \in BOOLEAN}
\* The addresses listened on: paths behind unix://, and abstract names.
ListenAddressValues ==
    {UnixPrefix \o p : p \in {<<"/", "p.sock">>, <<"/", "run", "/", "q.sock">>}}
        \cup {<<"a.sock">>, <<"/", "p.sock">>}
SocketRequests ==
    {[fn |-> f, args |-> <<a>>] : f \in {"NewSocket", "RemoveSocket"}, a \in ListenAddressValues}
\* The most errors that wrap the innermost error of a chain.
MaxWrappers == 3

\* An error is the chain errors.Unwrap walks, outermost first; nil is the
\* empty chain. The errors that wrap another, and those that end a chain.
WrapperValues ==
    {[type |-> "*net.OpError", v |-> o] : o \in {"listen", "dial"}}
        \cup {[type |-> "*os.SyscallError", v |-> "bind"],
              [type |-> "*fmt.wrapError", v |-> "msg"]}
LeafValues ==
    {[type |-> "syscall.Errno", v |-> e] : e \in {"EADDRINUSE", "ECONNREFUSED"}}
        \cup {[type |-> "*errors.errorString", v |-> "msg"]}
RECURSIVE WrapperChains(_)
WrapperChains(n) ==
    IF n = 0 THEN {<<>>}
    ELSE WrapperChains(n - 1)
            \cup {<<w>> \o c : w \in WrapperValues, c \in WrapperChains(n - 1)}
ErrorValues ==
    {<<>>} \cup {c \o <<l>> : c \in WrapperChains(MaxWrappers), l \in LeafValues}

\* errors.As(err, &netErr): the position of the first *net.OpError of the
\* chain, 0 when there is none.
AsOpError(err) ==
    LET hits == {i \in 1..Len(err) : err[i].type = "*net.OpError"}
    IN  IF hits = {} THEN 0 ELSE CHOOSE i \in hits : \A j \in hits : i <= j

\* errors.Is(err, target): some error of the chain equals target.
Is(err, target) == \E i \in 1..Len(err) : err[i] = target

EADDRINUSE == [type |-> "syscall.Errno", v |-> "EADDRINUSE"]

\* SocketEaddrinuse without the test of the operation.
SocketEaddrinuse_AnyOp(err) ==
    IF AsOpError(err) # 0 THEN Is(err, EADDRINUSE) ELSE FALSE

\* SocketEaddrinuse(err)
SocketEaddrinuse(err) ==
    IF AsOpError(err) # 0
    THEN IF err[AsOpError(err)].v # "listen" THEN FALSE
         ELSE Is(err, EADDRINUSE)
    ELSE FALSE

ErrorRequests == {[fn |-> "SocketEaddrinuse", args |-> <<e>>] : e \in ErrorValues}
Requests == DialRequests \cup AddressRequests \cup SocketRequests \cup ErrorRequests

\* The call has been made and has not returned.
Pending == [err |-> "pending", val |-> <<>>]

\* AnonDialer(address, timeout) runs and returns.
AnonDialerCall ==
    /\ call.fn = "AnonDialer" /\ ret = Pending
    /\ \E answer \in DialAnswers :
        LET r == AnonDialer(call.args[1], call.args[2], answer)
        IN  /\ ret' = [err |-> r.err, val |-> <<>>]
            /\ ops' = ops \o r.ops
    /\ nCalls' = nCalls + 1
    /\ UNCHANGED <<call, files, offSock>>

\* A process that calls a socket function: its flags are parsed, no
\* bootstrap and no dial is in progress.
InitSock ==
    /\ versionFlag = FALSE /\ infoFlag = FALSE /\ debugFlag = FALSE
    /\ namespaceFlag \in NamespaceValues /\ action = <<>>
    /\ socketFlag = <<>> /\ debugSocketFlag = <<>>
    /\ addressFlag \in AddressFlagValues /\ id = IdValue
    /\ pc = "idle" /\ runErr = "none" /\ serveErr = "none"
    /\ tuned = FALSE /\ signalsSet = FALSE /\ subreaperSet = FALSE
    /\ sdCreated = FALSE /\ sdCanceled = FALSE /\ sdDone = FALSE
    /\ pluginShutdown = FALSE
    /\ mgrCalls = <<>> /\ mgrStart = [state |-> "none", params |-> NoParams] /\ stdout = <<>>
    /\ stderrExit1 = 0 /\ exitCalls = <<>>
    /\ plIdx = 0 /\ ttrpcServices = 0 /\ ttrpcUnaryInterceptors = 0 /\ initErr = "none"
    /\ pprofHandler = FALSE /\ serverBuilt = FALSE
    /\ lPrimary = "none" /\ lDebug = "none"
    /\ gPrimary = "none" /\ gDebug = "none" /\ gExit = "none" /\ gReap = "none"
    /\ termSig = 0
    /\ cleanups = 0 /\ removes = <<>>
    /\ proc = "running" /\ exitCode = 0
    /\ DialIdle
    /\ DiagIdle
    /\ call \in Requests
    /\ ret = Pending
    /\ ops = <<>>
    /\ files \in IF call.fn \in {"NewSocket", "RemoveSocket"} /\ ~isAbstract(call.args[1])
                 THEN {{}, {path(call.args[1])}}
                 ELSE {{}}
    /\ nCalls = 0

\* SocketAddress(ctx, socketPath, id, debug) runs and returns; ctx carries
\* the namespace of the flags.
SocketAddressCall ==
    /\ call.fn = "SocketAddress" /\ ret = Pending
    /\ LET r == SocketAddress(call.args[1], call.args[2], call.args[3])
       IN  ret' = [err |-> IF r.err THEN "namespace is required" ELSE "nil", val |-> r.addr]
    /\ nCalls' = nCalls + 1
    /\ UNCHANGED <<call, ops, files, offSock>>

\* What the system answers to the calls of NewSocket: the platform, and the
\* errors of MkdirAll, of bind and of Chmod. bind on a path that exists
\* fails with address-in-use; an abstract name may be in use elsewhere.
NewSocketEnvs(address, fs) ==
    [goos : {"linux", "darwin"},
     mkdir : {"nil", "permission denied"},
     listen : IF isAbstract(address) THEN {"nil", "address already in use"}
              ELSE IF path(address) \in fs THEN {"address already in use"}
              ELSE {"nil", "permission denied"},
     chmod : {"nil", "operation not permitted"}]

\* NewSocket returning the chmod error at once.
NewSocket_ChmodErrorNoCleanup(address, fs, env) ==
    LET p == path(address)
        perm == IF env.goos = "darwin" THEN "0700" ELSE "0600"
        mkdir == [op |-> "os.MkdirAll", a |-> <<Dir(p), perm>>, err |-> env.mkdir]
        listen == [op |-> "net.Listen", a |-> <<"unix", p>>, err |-> env.listen]
        chmod == [op |-> "os.Chmod", a |-> <<p, perm>>, err |-> env.chmod]
    IN  IF isAbstract(address)
        THEN [err |-> env.listen, ops |-> <<listen>>, files |-> fs]
        ELSE IF env.mkdir # "nil"
             THEN [err |-> "mkdir failed", ops |-> <<mkdir>>, files |-> fs]
        ELSE IF env.listen # "nil"
             THEN [err |-> env.listen, ops |-> <<mkdir, listen>>,
                   files |-> fs \cup {Dir(p)}]
        ELSE IF env.chmod # "nil"
             THEN [err |-> "chmod failed", ops |-> <<mkdir, listen, chmod>>,
                   files |-> fs \cup {Dir(p), p}]
        ELSE [err |-> "nil", ops |-> <<mkdir, listen, chmod>>,
              files |-> fs \cup {Dir(p), p}]

\* NewSocket(address) with the files fs present: the error it returns, its
\* system calls in order, and the files present afterwards.
NewSocket(address, fs, env) ==
    LET p == path(address)
        perm == IF env.goos = "darwin" THEN "0700" ELSE "0600"
        mkdir == [op |-> "os.MkdirAll", a |-> <<Dir(p), perm>>, err |-> env.mkdir]
        listen == [op |-> "net.Listen", a |-> <<"unix", p>>, err |-> env.listen]
        chmod == [op |-> "os.Chmod", a |-> <<p, perm>>, err |-> env.chmod]
        remove == [op |-> "os.Remove", a |-> <<p>>, err |-> "nil"]
        close == [op |-> "l.Close", a |-> <<p>>, err |-> "nil"]
    IN  IF isAbstract(address)
        THEN [err |-> env.listen, ops |-> <<listen>>, files |-> fs]
        ELSE IF env.mkdir # "nil"
             THEN [err |-> "mkdir failed", ops |-> <<mkdir>>, files |-> fs]
        ELSE IF env.listen # "nil"
             THEN [err |-> env.listen, ops |-> <<mkdir, listen>>,
                   files |-> fs \cup {Dir(p)}]
        ELSE IF env.chmod # "nil"
             THEN [err |-> "chmod failed", ops |-> <<mkdir, listen, chmod, remove, close>>,
                   files |-> (fs \cup {Dir(p)}) \ {p}]
        ELSE [err |-> "nil", ops |-> <<mkdir, listen, chmod>>,
              files |-> fs \cup {Dir(p), p}]

\* NewSocket(address) runs and returns.
NewSocketCall ==
    /\ call.fn = "NewSocket" /\ ret = Pending
    /\ \E env \in NewSocketEnvs(call.args[1], files) :
        LET r == NewSocket(call.args[1], files, env)
        IN  /\ ret' = [err |-> r.err, val |-> <<>>]
            /\ ops' = ops \o r.ops
            /\ files' = r.files
    /\ nCalls' = nCalls + 1
    /\ UNCHANGED <<call, offSock>>

\* RemoveSocket(address) runs and returns: os.Remove deletes the file, or
\* fails when there is none.
RemoveSocketCall ==
    /\ call.fn = "RemoveSocket" /\ ret = Pending
    /\ LET ps == RemoveSocket(call.args[1])
           err == IF ps = <<>> \/ ps[1] \in files THEN "nil"
                  ELSE "no such file or directory"
       IN  /\ ret' = [err |-> err, val |-> <<>>]
           /\ ops' = ops \o [i \in 1..Len(ps) |-> [op |-> "os.Remove", a |-> <<ps[i]>>, err |-> err]]
           /\ files' = files \ {ps[i] : i \in 1..Len(ps)}
    /\ nCalls' = nCalls + 1
    /\ UNCHANGED <<call, offSock>>

\* The caller of NewSocket or RemoveSocket goes on with the same address.
SocketCallAgain ==
    /\ call.fn \in {"NewSocket", "RemoveSocket"} /\ ret # Pending
    /\ nCalls < MaxCalls
    /\ \E f \in {"NewSocket", "RemoveSocket"} : call' = [fn |-> f, args |-> call.args]
    /\ ret' = Pending
    /\ UNCHANGED <<ops, files, nCalls, offSock>>

\* SocketEaddrinuse(err) runs and returns.
SocketEaddrinuseCall ==
    /\ call.fn = "SocketEaddrinuse" /\ ret = Pending
    /\ ret' = [err |-> "nil", val |-> <<SocketEaddrinuse(call.args[1])>>]
    /\ nCalls' = nCalls + 1
    /\ UNCHANGED <<call, ops, files, offSock>>

NextSock ==
    \/ SocketEaddrinuseCall
    \/ AnonDialerCall
    \/ SocketAddressCall
    \/ NewSocketCall
    \/ RemoveSocketCall
    \/ SocketCallAgain

SpecSock == InitSock /\ [][NextSock]_vars

\* The errors dialVsock and dialHybridVsock reject an address with.
ParseErrors ==
    { "invalid vsock address", "failed to parse vsock context id",
      "vsock context id is invalid", "failed to parse vsock port",
      "vsock port is invalid", "invalid hybrid vsock address",
      "failed to parse hybrid vsock port", "hybrid vsock port is invalid" }

\* s is an unsigned decimal number of at most 2^32-1.
IsUint32(s) ==
    /\ s # <<>>
    /\ \A i \in 1..Len(s) : IsDigit(s[i])
    /\ ~NumGreater(Canonical(s), MaxUint32)

\* The opaque part of the address of the last call.
Opaque == SubSeq(call.args[1], 3, Len(call.args[1]))

\* C16: dialing a vsock address whose context id or port is missing, is no
\* unsigned decimal number or is above 2^32-1 returns a parse error and
\* makes no connection attempt, and so does dialing a hybrid vsock address
\* with such a port; every other vsock or hybrid vsock address is dialed
\* once.
C16_BadNumberNoDial ==
    /\ (call.fn = "AnonDialer" /\ ret # Pending
            /\ HasPrefix(call.args[1], <<protoVsock, "://">>)) =>
          IF /\ Cut(Opaque, ":").found
             /\ IsUint32(Cut(Opaque, ":").before)
             /\ IsUint32(Cut(Opaque, ":").after)
          THEN Len(ops) = 1 /\ ops[1].op = "vsock.Dial" /\ ret.err \in DialAnswers
          ELSE ops = <<>> /\ ret.err \in ParseErrors
    /\ (call.fn = "AnonDialer" /\ ret # Pending
            /\ HasPrefix(call.args[1], <<protoHybridVsock, "://">>)) =>
          IF Cut(Opaque, ":").found /\ IsUint32(Cut(Opaque, ":").after)
          THEN Len(ops) = 1 /\ ops[1].op = "hybridVsockDialer" /\ ret.err \in DialAnswers
          ELSE ops = <<>> /\ ret.err \in ParseErrors

\* A port above 2^32-1, after a valid context id, was rejected without a dial.
C16_Witness ==
    /\ call.fn = "AnonDialer"
    /\ HasPrefix(call.args[1], <<protoVsock, "://">>)
    /\ Cut(Opaque, ":").found
    /\ Cut(Opaque, ":").before = <<"7">>
    /\ NumGreater(Canonical(Cut(Opaque, ":").after), MaxUint32)
    /\ \A i \in 1..Len(Cut(Opaque, ":").after) : IsDigit(Cut(Opaque, ":").after[i])
    /\ ops = <<>>
    /\ ret.err = "vsock port is invalid"

\* AnonDialer returned from dialing an address that has no scheme separator.
BareDialed == call.fn = "AnonDialer" /\ ret # Pending /\ ~Cut(call.args[1], "://").found

\* What dialing the same address behind unix:// does, with the same timeout.
PrefixedDial == AnonDialer(UnixPrefix \o call.args[1], call.args[2], ret.err).ops

\* C17 as stated: an address without a scheme separator is connected to the
\* same unix endpoint, with the same timeout, as the address behind unix://.
C17_BareSameAsPrefixed == BareDialed => ops = PrefixedDial

\* C17: an address without a scheme separator is dialed once, as the
\* abstract unix socket of that name; the address behind unix:// is dialed
\* once as the path of that name, with the same network and timeout.
C17_BareIsAbstract ==
    BareDialed =>
        /\ ops = <<[op |-> "net.DialTimeout",
                    a |-> <<"unix", abstractSocketPrefix \o call.args[1], call.args[2]>>,
                    err |-> ret.err]>>
        /\ PrefixedDial = <<[op |-> "net.DialTimeout",
                             a |-> <<"unix", call.args[1], call.args[2]>>,
                             err |-> ret.err]>>

\* /p.sock, without a scheme, was dialed and a connection came back.
C17_Witness ==
    /\ BareDialed
    /\ call.args[1] = <<"/", "p.sock">>
    /\ ret.err = "nil"
    /\ Len(ops) = 1

\* unix://<root>/s/<digest of root/namespace/id[/debug]>
AddressOf(root, ns, taskId, debug) ==
    UnixPrefix \o Join(root, <<"s">>) \o <<"/">>
        \o Sha256Hex(IF debug THEN Join(Join(Join(root, ns), taskId), <<"debug">>)
                     ELSE Join(Join(root, ns), taskId))

\* C18: the address SocketAddress returns is the one its root, namespace, id
\* and debug arguments determine, unix://<root>/s/<digest of
\* root/namespace/id[/debug]>, whatever the flags of the process are.
C18_AddressFromInputsOnly ==
    (call.fn = "SocketAddress" /\ ret # Pending /\ ret.err = "nil")
        => ret.val = AddressOf(call.args[1], namespaceFlag, call.args[2], call.args[3])

\* The system calls that act on the filesystem.
FileOps == {"os.MkdirAll", "os.Chmod", "os.Remove"}

\* Before the last system call, path p was bound by a NewSocket that
\* succeeded, and has not been removed since.
Listening(p) ==
    \E i \in 1..(Len(ops) - 1) :
        /\ ops[i].op = "net.Listen" /\ ops[i].a = <<"unix", p>> /\ ops[i].err = "nil"
        /\ \A j \in (i + 1)..(Len(ops) - 1) : ops[j].op # "os.Remove"

\* C19: on an abstract address NewSocket and RemoveSocket make no filesystem
\* call (no MkdirAll, no Chmod, no Remove) and leave the files as they are,
\* and RemoveSocket returns no error; on a path behind unix://, after
\* RemoveSocket has returned following a NewSocket that succeeded, the
\* socket file does not exist.
C19_AbstractNoFilesRemoveDeletes ==
    /\ (call.fn \in {"NewSocket", "RemoveSocket"} /\ isAbstract(call.args[1])) =>
          /\ \A i \in 1..Len(ops) : ops[i].op \notin FileOps
          /\ files = {}
          /\ (call.fn = "RemoveSocket" /\ ret # Pending) => ret.err = "nil"
    /\ (call.fn = "RemoveSocket" /\ ret # Pending /\ ~isAbstract(call.args[1])) =>
          /\ path(call.args[1]) \notin files
          /\ Listening(path(call.args[1])) =>
                /\ ret.err = "nil"
                /\ ops[Len(ops)] = [op |-> "os.Remove", a |-> <<path(call.args[1])>>, err |-> "nil"]

\* RemoveSocket deleted the file of a listener that NewSocket had returned.
C19_Witness ==
    /\ call = [fn |-> "RemoveSocket", args |-> <<UnixPrefix \o <<"/", "run", "/", "q.sock">> >>]
    /\ ret = [err |-> "nil", val |-> <<>>]
    /\ Listening(<<"/", "run", "/", "q.sock">>)
    /\ <<"/", "run", "/", "q.sock">> \notin files
    /\ <<"/", "run">> \in files

\* The outermost network operation error of err has operation o and wraps
\* the error number e.
OpErrorWith(err, o, e) ==
    \E i \in 1..Len(err) :
        /\ err[i] = [type |-> "*net.OpError", v |-> o]
        /\ \A j \in 1..(i - 1) : err[j].type # "*net.OpError"
        /\ \E k \in (i + 1)..Len(err) : err[k] = [type |-> "syscall.Errno", v |-> e]

FirstListenOnPath ==
    call.fn = "NewSocket" /\ ret # Pending /\ nCalls = 1 /\ ~isAbstract(call.args[1])

\* C21: NewSocket on a path creates the parent directory, removes a stale
\* file at the path, binds and changes the mode, in this order, so that a
\* file left at the path by an earlier run does not make the bind fail.
C21_StaleFileRemovedBeforeBind ==
    FirstListenOnPath =>
        /\ ops[1].op = "os.MkdirAll"
        /\ \A i \in 1..Len(ops) :
              /\ ops[i].op = "net.Listen" => \A j \in 1..(i - 1) : ops[j].op # "os.Chmod"
              /\ ops[i].op = "os.Chmod" => \E j \in 1..(i - 1) : ops[j].op = "net.Listen"
        /\ ret.err # "address already in use"

\* The system calls of the call that returns in this step.
NewOps == SubSeq(ops', Len(ops) + 1, Len(ops'))

\* C22: when NewSocket returns an error, every listener it opened has been
\* closed and the socket file is there only if it was there before the
\* call; after a chmod error the file was removed and then the listener
\* closed.
C22_ErrorLeavesNothing ==
    [][(call.fn = "NewSocket" /\ ret = Pending /\ ret' # Pending /\ ret'.err # "nil") =>
          /\ \A i \in 1..Len(NewOps) :
                (NewOps[i].op = "net.Listen" /\ NewOps[i].err = "nil")
                    => \E j \in (i + 1)..Len(NewOps) : NewOps[j].op = "l.Close"
          /\ path(call.args[1]) \in files' <=> path(call.args[1]) \in files
          /\ ret'.err = "chmod failed" =>
                /\ Len(NewOps) = 5
                /\ NewOps[3].op = "os.Chmod" /\ NewOps[3].err # "nil"
                /\ NewOps[4] = [op |-> "os.Remove", a |-> <<path(call.args[1])>>, err |-> "nil"]
                /\ NewOps[5].op = "l.Close"
                /\ path(call.args[1]) \notin files']_vars

\* NewSocket returned the chmod error; the file it had bound is gone.
C22_Witness ==
    /\ call.fn = "NewSocket" /\ ret.err = "chmod failed"
    /\ ~isAbstract(call.args[1])
    /\ path(call.args[1]) \notin files
    /\ ops[Len(ops)].op = "l.Close"

\* What the plugins initialized so far have contributed.
Contributions == <<ttrpcServices, ttrpcUnaryInterceptors, pprofHandler>>

\* C23: an iteration of the plugin loop whose init error is marked skip adds
\* no service, interceptor or debug server and leaves run in the loop; one
\* whose init error is not marked skip makes run return the error, after
\* which no plugin is initialized, no listener is bound, no accept loop is
\* started and the process exits with code 1.
C23_SkipContinuesErrorAborts ==
    /\ [][(pc = "plugins" /\ plIdx' = plIdx + 1) =>
            /\ initErr' = "skip" =>
                  (pc' = "plugins" /\ runErr' = runErr /\ Contributions' = Contributions)
            /\ initErr' = "initerr" =>
                  (pc' = "defer" /\ runErr' = "load plugin" /\ Contributions' = Contributions)]_vars
    /\ [][runErr = "load plugin" =>
            (plIdx' = plIdx /\ Contributions' = Contributions /\ runErr' = runErr)]_vars
    /\ [](runErr = "load plugin" =>
            /\ initErr = "initerr" /\ ~serverBuilt /\ serveErr = "none"
            /\ lPrimary = "none" /\ lDebug = "none"
            /\ gPrimary = "none" /\ gDebug = "none")
    /\ []((pc = "done" /\ runErr = "load plugin") => exitCode = 1)

\* The second plugin failed to initialize after the first had given a
\* service; the process has exited without a listener.
C23_Witness ==
    /\ pc = "done" /\ runErr = "load plugin" /\ initErr = "initerr"
    /\ plIdx = 2 /\ ttrpcServices = 1
    /\ lPrimary = "none" /\ exitCode = 1

\* manager.Stop is called in this step.
StopCalled == mgrCalls' = Append(mgrCalls, "Stop")

\* C24: in the delete action the reap loop is running when manager.Stop is
\* called and still when it returns; the delete response is written only
\* in the step in which Stop returns without error, and when Stop fails
\* nothing is written.
C24_ReapBeforeStopWriteAfter ==
    /\ [](pc = "stop" => (gReap = "running" /\ mgrCalls = <<>> /\ stdout = <<>>))
    /\ [][StopCalled => (gReap = "running" /\ gReap' = "running")]_vars
    /\ [][(SelectedAction = "delete" /\ stdout' # stdout) =>
            /\ StopCalled
            /\ runErr' \in {"nil", "writeerr"}
            /\ stdout' = <<StdoutRecord("delete", NoJSON)>>]_vars
    /\ []((runErr = "stoperr") => (stdout = <<>> /\ mgrCalls = <<"Stop">>))

\* The delete action ended with its response written and the reap loop
\* still running.
C24_Witness ==
    /\ pc = "done" /\ runErr = "nil" /\ mgrCalls = <<"Stop">>
    /\ stdout = <<StdoutRecord("delete", NoJSON)>>
    /\ gReap = "running" /\ exitCode = 0

\* C25: the line SHIM_EXIT code=1 is on stderr only in invocations that exit
\* with code 1: an invocation that has exited with code 0 has not written it.
C25_ExitLineOnlyOnExitOne ==
    (proc = "exited" /\ stderrExit1 > 0) => exitCode = 1

\* C26: socket cleanup removes only sockets this invocation bound: when
\* serve failed because the primary listener on the path of the socket
\* flag could not be bound, the invocation calls no remove on that path.
C26_UnboundSocketNotRemoved ==
    (serveErr = "listen" /\ Len(socketFlag) > 0 /\ lPrimary = "none")
        => ~InSeq(PrimaryPath, removes)

\* C27: in hybridVsockDialer at most one connection is open at any time; a
\* return with an error leaves none open and a return with a connection
\* leaves that one open; a reader is started only when the one before it
\* has finished, its send finds the channel empty, and every reader that
\* was started finishes.
C27_OneConnReaderEnds ==
    /\ [](dOpen \in {0, 1} /\ (dOpen = 1 <=> dConn = "open"))
    /\ []((dPc = "done" /\ dResult # "conn") => dOpen = 0)
    /\ []((dPc = "done" /\ dResult = "conn") => (dOpen = 1 /\ dConn = "open"))
    /\ [](dPc = "spawn" => dReader # "reading")
    /\ [][(dReader = "reading" /\ dReader' = "sent") => errChan = "empty"]_vars
    /\ (dReader = "reading") ~> (dReader = "sent")

\* The dial timed out while the reader was blocked in its read: the
\* connection was closed, the read failed and the reader sent its result.
C27_Witness ==
    /\ dPc = "done" /\ dResult = "timeout" /\ dOpen = 0
    /\ dReader = "sent" /\ dRead = "closed" /\ errChan = "closed"
====
